---- MODULE Spec2Model ----
(***************************************************************************)
(* A model of the rax-ftp-client session: the RaxFtpClient of              *)
(* src/client.rs driven by Terminal::run_interactive, its control          *)
(* connection (src/connection/command.rs), the per-command data            *)
(* connection (src/connection/data.rs) and an FTP server that answers      *)
(* every command it receives.                                              *)
(*                                                                         *)
(* Replies are abstracted to their 3-digit code (Garbage for a reply whose *)
(* text does not parse), the PASV address token, and a tag telling         *)
(* whether the reply answers a command sent by the execute_command call    *)
(* now running ("cur") or by an earlier one ("old").                       *)
(*                                                                         *)
(* Spec is the session.  Further specifications follow one call or one     *)
(* object in finer grain: ReaderSpec follows                               *)
(* CommandConnection::read_response line by line, PasvSpec follows         *)
(* handle_pasv_command on the characters of the reply text, UploadSpec     *)
(* follows upload_file_with_progress chunk by chunk, DataSpec follows one  *)
(* DataConnection call by call, ParseSpec applies parse_response and       *)
(* Display to the characters of a reply, TypedSpec applies parse_command   *)
(* to the characters of a typed line and LineSpec goes on to the line      *)
(* execute_command writes for it, DownloadSpec follows                     *)
(* download_file_with_progress chunk by chunk.  DataFairSpec is DataSpec   *)
(* with the client's own calls scheduled fairly, ClientSpec is Spec with a *)
(* caller that reconnects after the control connection was lost.           *)
(***************************************************************************)
EXTENDS Integers, Sequences, FiniteSets, TLC

VARIABLES
    state,                  \* RaxFtpClient.state
    stream,                 \* CommandConnection.stream.is_some()
    current_data_mode,      \* RaxFtpClient.current_data_mode
    data_connection_info,   \* RaxFtpClient.data_connection_info
    config,                 \* RaxFtpClient.config (server.max_retries)
    peerOpen,               \* the server still holds its end of the control transport
    inbox,                  \* replies the server has sent and the client has not read
    owed,                   \* the final reply of a transfer the server has not sent yet
    pc,                     \* position of the program
    io,                     \* the control-channel call the handler is blocked in
    verb,                   \* the command text handed to send_command
    ret,                    \* the value the last send_command / read_response returned
    pret,                   \* the value the last handle_pasv_command returned
    ctx,                    \* the caller of handle_pasv_command
    attempt,                \* loop counter of the running retry loop
    dc,                     \* the handler's local DataConnection
    held,                   \* the transfer error kept while the final reply is read
    cmd,                    \* the command execute_command was called with
    entry,                  \* the session state when execute_command was called
    log,                    \* channel operations of the running execute_command
    result,                 \* what the last call returned to the terminal
    wire,                   \* lines on the control socket that no read_line has taken
    reader,                 \* the frame of one CommandConnection::read_response call
    pasv,                   \* the frame of one handle_pasv_command call, from its reply on
    upload,                 \* the frame of one upload_file_with_progress call
    data,                   \* one DataConnection object and the last call made on it
    parsed,                 \* one parse_response call on the text of a reply, and its Display
    typed,                  \* one parse_command call on a line the user typed
    download                \* the frame of one download_file_with_progress call

clientVars == <<state, stream, current_data_mode, data_connection_info, config>>
netVars == <<peerOpen, inbox, owed>>
localVars == <<io, verb, ret, pret, ctx, attempt, dc, held>>
\* state of the unit-level specifications, which the session leaves alone
unitVars == <<wire, reader, pasv, upload, data, parsed, typed, download>>
vars == <<state, stream, current_data_mode, data_connection_info, config, peerOpen,
          inbox, owed, pc, io, verb, ret, pret, ctx, attempt, dc, held, cmd, entry, log,
          result, wire, reader, pasv, upload, data, parsed, typed, download>>

(***************************************************************************)
(* Bounds and program constants                                            *)
(***************************************************************************)
\* replies of earlier commands that may still be unread when a command starts
MaxStale == 1
\* largest server.max_retries a configuration file is drawn with
MaxRetries == 3
\* const MAX_RETRIES of the two PASV retry loops
MAX_RETRIES == 3

\* a reply whose text has no 3-digit code
Garbage == 0

NoInfo == [mode |-> "None", host |-> "-"]
NoDc == [mode |-> "None", listener |-> FALSE, stream |-> FALSE, port |-> 0]
NoRet == [ok |-> TRUE, code |-> Garbage, arg |-> "-", err |-> "-"]
NoCmd == [verb |-> "-", arg |-> "-"]
NoResult == [ok |-> TRUE, kind |-> "-", code |-> Garbage]
\* no upload_file_with_progress call is being followed chunk by chunk
NoUpload == [pc |-> "none", file |-> <<>>, pos |-> 0, written |-> <<>>, total_sent |-> 0,
             transferred_bytes |-> 0, out |-> "-"]
\* no DataConnection object exists / the value a call on one returns
NoConn == [mode |-> "None", listener |-> FALSE, stream |-> FALSE, local_addr |-> 0,
           server_host |-> "-", server_port |-> 0]
NoOut == [ok |-> TRUE, err |-> "-", names |-> "-", text |-> <<>>]
NoData == [conn |-> NoConn, op |-> "none", out |-> NoOut, was |-> NoConn]
\* no FtpResponse / no parser::parse_response call is being followed
NoFtpResponse == [ok |-> FALSE, code |-> 0, message |-> <<>>, err |-> "-"]
NoParsed == [pc |-> "none", input |-> <<>>, out |-> NoFtpResponse, shown |-> <<>>]
\* no parsed command / no parse_command call is being followed
NoParsedCommand == [kind |-> <<>>, arg |-> <<>>, note |-> "none"]
NoTyped == [pc |-> "none", lead |-> <<>>, verb |-> <<>>, sep |-> <<>>, arg |-> <<>>,
            trail |-> <<>>, input |-> <<>>, canon |-> <<>>, out |-> NoParsedCommand,
            sent |-> <<>>]
\* no download_file_with_progress call is being followed chunk by chunk
NoDownload == [pc |-> "none", incoming |-> <<>>, total_received |-> 0, total_bytes |-> 0,
               transferred_bytes |-> 0, chunks |-> 0, out |-> "-"]
\* no handle_pasv_command call is being followed on the text of its reply
NoPasv == [pc |-> "none", code |-> Garbage, text |-> <<>>, out |-> "-", was |-> <<>>]
\* no CommandConnection::read_response call is being followed line by line
NoFrame == [pc |-> "none", response |-> <<>>, first_line |-> TRUE, expected_code |-> <<>>,
            out |-> "-", eofs |-> 0, sent |-> <<>>]

\* FtpCommand: the verb, and the PORT argument ("u1" parses as a socket address)
Passthrough == {"USER", "PASS", "QUIT", "LOGOUT", "RETR", "DEL", "PWD", "CWD",
                "RAX", "HELP", "UNKNOWN"}
FtpCommand ==
    {[verb |-> v, arg |-> "-"] : v \in Passthrough \cup {"STOR", "LIST", "PASV"}}
        \cup {[verb |-> "PORT", arg |-> a] : a \in {"u1", "bad"}}

Reply(c, a) == [code |-> c, arg |-> a, tag |-> "cur"]

(***************************************************************************)
(* The server: what it answers to one command line.  now: replies sent at  *)
(* once; later: the final reply of a transfer, sent when the data phase is *)
(* over; closes: the server closes the control transport after replying.   *)
(***************************************************************************)
Answer(now, later, closes) == [now |-> now, later |-> later, closes |-> closes]

ServerAnswers(v) ==
    CASE v = "USER" -> {Answer(<<Reply(c, "-")>>, <<>>, FALSE) : c \in {331, 530}}
      [] v = "PASS" -> {Answer(<<Reply(c, "-")>>, <<>>, FALSE) : c \in {230, 530}}
      [] v = "QUIT" -> {Answer(<<Reply(221, "-")>>, <<>>, TRUE)}
      [] v = "LOGOUT" -> {Answer(<<Reply(c, "-")>>, <<>>, FALSE) : c \in {221, 530}}
      [] v \in {"STOR", "RETR", "LIST"} ->
            {Answer(<<Reply(150, "-")>>, <<Reply(c, "-")>>, FALSE) : c \in {226, 426}}
                \cup {Answer(<<Reply(550, "-")>>, <<>>, FALSE)}
      [] v = "PORT" -> {Answer(<<Reply(c, "-")>>, <<>>, FALSE) : c \in {200, 500}}
      [] v = "PASV" -> {Answer(<<Reply(227, a)>>, <<>>, FALSE) : a \in {"p1", "bad", "rev"}}
                          \cup {Answer(<<Reply(500, "-")>>, <<>>, FALSE)}
      [] OTHER -> {Answer(<<Reply(c, "-")>>, <<>>, FALSE) : c \in {200, 550, Garbage}}

Stale(q) == [i \in DOMAIN q |-> [q[i] EXCEPT !.tag = "old"]]

Event(op, v, c, t) == [op |-> op, verb |-> v, code |-> c, tag |-> t]

(***************************************************************************)
(* Pure functions of the client                                            *)
(***************************************************************************)
\* a parser that takes the text of a reply without a code for a closing 221
parse_response_lenient(r) ==
    [ok |-> TRUE, code |-> IF r.code = Garbage THEN 221 ELSE r.code]

\* parse_response on the abstract reply: the code, or failure for Garbage
parse_response(r) == [ok |-> r.code # Garbage, code |-> r.code]

\* CommandConnection::is_connected
connection_is_connected(s) == s

\* RaxFtpClient::is_connected
is_connected == connection_is_connected(stream) /\ state # "Disconnected"

Session(st, mode, info) == [state |-> st, mode |-> mode, info |-> info]

\* update_state_from_response with 230 ignored
update_state_no_login(code, st, mode, info, sock) ==
    CASE code = 221 ->
            IF ~connection_is_connected(sock)
                THEN Session("Disconnected", "Passive", NoInfo)
                ELSE Session("Connected", mode, info)
      [] OTHER -> Session(st, mode, info)

\* update_state_from_response with 530 treated as a lost session
update_state_530_drops(code, st, mode, info, sock) ==
    CASE code = 230 -> Session("Authenticated", mode, info)
      [] code = 530 -> Session("Disconnected", mode, info)
      [] code = 221 ->
            IF ~connection_is_connected(sock)
                THEN Session("Disconnected", "Passive", NoInfo)
                ELSE Session("Connected", mode, info)
      [] OTHER -> Session(st, mode, info)

\* update_state_from_response with the LOGOUT branch clearing the data channel
update_state_logout_clears(code, st, mode, info, sock) ==
    CASE code = 230 -> Session("Authenticated", mode, info)
      [] code = 221 ->
            IF ~connection_is_connected(sock)
                THEN Session("Disconnected", "Passive", NoInfo)
                ELSE Session("Connected", "Passive", NoInfo)
      [] OTHER -> Session(st, mode, info)

\* RaxFtpClient::update_state_from_response
update_state_from_response(code, st, mode, info, sock) ==
    CASE code = 230 -> Session("Authenticated", mode, info)
      [] code = 530 -> Session(st, mode, info)
      [] code = 221 ->
            IF ~connection_is_connected(sock)
                THEN Session("Disconnected", "Passive", NoInfo)
                ELSE Session("Connected", mode, info)
      [] OTHER -> Session(st, mode, info)

\* The text of a 227 reply is a sequence of characters: "(", ")", "z" for any
\* other character, and one character per address, standing for the text of
\* an "ip:port" that parses as a SocketAddr.
Addresses == {"p1"}
PasvChars == {"(", ")", "z"} \cup Addresses

\* the reply texts the server of the session answers PASV with, by name
PasvText(a) ==
    CASE a = "p1" -> <<"z", "(", "p1", ")">>
      [] a = "rev" -> <<")", "z", "(", "p1", ")">>
      [] OTHER -> <<"z", "(", "z", ")">>

\* str::find: the position of the first c in t, 0 for None
find(t, c) ==
    IF \E i \in DOMAIN t : t[i] = c
       THEN CHOOSE i \in DOMAIN t : t[i] = c /\ \A j \in 1..(i - 1) : t[j] # c
       ELSE 0

\* the slice &response[start + 1..end] panics when it starts behind its end
Panic == [mode |-> "panic", host |-> "-"]

\* RaxFtpClient::parse_pasv_response: Some(info), None (NoInfo) or a panic
parse_pasv_response(t) ==
    LET start == find(t, "(")
        end == find(t, ")")
    IN IF start = 0 \/ end = 0 THEN NoInfo
       ELSE IF end < start THEN Panic
       ELSE IF SubSeq(t, start + 1, end - 1) \in {<<a>> : a \in Addresses}
               THEN [mode |-> "Passive", host |-> t[start + 1]]
               ELSE NoInfo

\* a handle_pasv_command that stores the address of a 227 reply and leaves
\* current_data_mode as it was
pasv_outcome_keeps_mode(code, t, mode, info) ==
    IF code = 227 /\ parse_pasv_response(t) \notin {Panic, NoInfo}
       THEN [ret |-> "Ok", mode |-> mode, info |-> parse_pasv_response(t)]
       ELSE [ret |-> "Ok", mode |-> mode, info |-> info]

\* handle_pasv_command once read_response has returned Ok: what it returns and
\* the data mode and info it leaves
pasv_outcome(code, t, mode, info) ==
    IF code # 227 THEN [ret |-> "Ok", mode |-> mode, info |-> info]
    ELSE LET a == parse_pasv_response(t)
         IN IF a = Panic THEN [ret |-> "panic", mode |-> mode, info |-> info]
            ELSE IF a # NoInfo THEN [ret |-> "Ok", mode |-> "Passive", info |-> a]
            ELSE [ret |-> "DataConnectionFailed", mode |-> mode, info |-> info]

(***************************************************************************)
(* Initial state: RaxFtpClient::new, before run_interactive connects       *)
(***************************************************************************)
\* the fields RaxFtpClient::new clears and the locals of a program that has
\* not called anything yet
SessionAtRest ==
    /\ current_data_mode = "Passive"
    /\ data_connection_info = NoInfo
    /\ inbox = <<>>
    /\ owed = <<>>
    /\ io = "none"
    /\ verb = "-"
    /\ ret = NoRet
    /\ pret = "-"
    /\ ctx = "-"
    /\ attempt = 0
    /\ dc = NoDc
    /\ held = "none"
    /\ cmd = NoCmd
    /\ entry = "Disconnected"
    /\ log = <<>>
    /\ result = NoResult

Init ==
    /\ download = NoDownload
    /\ typed = NoTyped
    /\ parsed = NoParsed
    /\ data = NoData
    /\ state = "Disconnected"
    /\ stream = FALSE
    /\ config \in [max_retries : 0..MaxRetries]
    /\ peerOpen = FALSE
    /\ pc = "start"
    /\ SessionAtRest
    /\ wire = <<>>
    /\ reader = NoFrame
    /\ pasv = NoPasv
    /\ upload = NoUpload

(***************************************************************************)
(* Control transfer inside execute_command                                 *)
(***************************************************************************)
\* the handler goes on at label p
Goto(p) == pc' = p /\ io' = "none" /\ UNCHANGED <<verb, ret>>

\* the handler calls self.send_command(v) and goes on at label p
CallSend(v, p) == pc' = p /\ io' = "send" /\ verb' = v /\ UNCHANGED ret

\* the handler calls self.read_response() and goes on at label p
CallRead(p) == pc' = p /\ io' = "read" /\ UNCHANGED <<verb, ret>>

\* a DataConnection that outlives the scope it was created in
drop_leaks(d) == d
\* impl Drop for DataConnection, run when the handler's local data_connection
\* goes out of scope: close(), then the listener and the stream are released
drop(d) == NoDc

\* execute_command returns to Terminal::handle_command, which leaves the
\* session loop when the call succeeded and the client is not connected
Return(ok, kind, code) ==
    /\ result' = [ok |-> ok, kind |-> kind, code |-> code]
    /\ pc' = IF ok /\ ~is_connected THEN "cleanup" ELSE "idle"
    /\ io' = "none"
    /\ verb' = "-"
    /\ ret' = NoRet
    /\ pret' = "-"
    /\ ctx' = "-"
    /\ attempt' = 0
    /\ dc' = drop(dc)
    /\ held' = "none"

\* a handler step that touches neither the session nor the network
Quiet == UNCHANGED <<clientVars, unitVars, netVars, cmd, entry, log>>

(***************************************************************************)
(* Terminal::run_interactive                                               *)
(***************************************************************************)
\* `for attempt in 1..=self.max_retries` of CommandConnection::connect_with_retries
in_retry_range_exclusive(a, n) == a < n

in_retry_range(a, n) == a <= n

\* the backoff after failed attempt a of n: sleep a seconds, unless it was the last
Backoff(a, n) == IF a < n THEN <<Event("sleep", "-", a, "-")>> ELSE <<>>

\* one call of CommandConnection::connect.  TcpStream::connect_timeout fails
\* ("refused", "timeout", "io") and the socket field is left as it was, or the
\* new socket is stored and the greeting is then read ("ok") or not received
\* in time ("greeting")
connect(o) ==
    /\ stream' = IF o \in {"ok", "greeting"} THEN TRUE ELSE stream
    /\ peerOpen' = IF o \in {"ok", "greeting"} THEN TRUE ELSE peerOpen
    /\ UNCHANGED <<inbox, owed>>

\* RaxFtpClient::connect_with_retries over CommandConnection::connect_with_retries,
\* one loop iteration per step
connect_with_retries ==
    /\ \/ /\ pc = "start"
          /\ pc' = "connect_loop"
          /\ attempt' = 1
          /\ UNCHANGED <<state, stream, netVars, log, result>>
       \/ /\ pc = "connect_loop"
          /\ in_retry_range(attempt, config.max_retries)
          /\ connect("ok")
          /\ log' = Append(log, Event("tcp_connect", "-", attempt, "ok"))
          /\ state' = "Connected"
          /\ result' = [ok |-> TRUE, kind |-> "connect", code |-> Garbage]
          /\ pc' = "idle"
          /\ attempt' = 0
       \/ /\ pc = "connect_loop"
          /\ in_retry_range(attempt, config.max_retries)
          /\ \E o \in {"refused", "timeout", "io", "greeting"} :
                /\ connect(o)
                /\ log' = Append(log, Event("tcp_connect", "-", attempt, o))
                            \o Backoff(attempt, config.max_retries)
          /\ attempt' = attempt + 1
          /\ UNCHANGED <<state, pc, result>>
       \/ /\ pc = "connect_loop"   \* the server closes before the greeting: read_response spins
          /\ in_retry_range(attempt, config.max_retries)
          /\ stream' = TRUE
          /\ peerOpen' = FALSE
          /\ log' = Append(log, Event("tcp_connect", "-", attempt, "eof"))
          /\ pc' = "hung"
          /\ UNCHANGED <<state, inbox, owed, attempt, result>>
       \/ /\ pc = "connect_loop"
          /\ ~in_retry_range(attempt, config.max_retries)
          /\ result' = [ok |-> FALSE, kind |-> "ConnectionTimeout", code |-> Garbage]
          /\ pc' = "idle"
          /\ attempt' = 0
          /\ UNCHANGED <<state, stream, netVars, log>>
    /\ UNCHANGED <<current_data_mode, data_connection_info, config, unitVars, io, verb, ret, pret,
                   ctx, dc, held, cmd, entry>>

\* the session loop reads a line and calls execute_command, which dispatches
execute_command(c) ==
    /\ pc = "idle"
    /\ Len(inbox) + Len(owed) <= MaxStale
    /\ cmd' = c
    /\ entry' = state
    /\ log' = <<>>
    /\ inbox' = Stale(inbox)
    /\ owed' = Stale(owed)
    /\ result' = NoResult
    /\ pc' = CASE c.verb = "STOR" -> "stor_begin"
               [] c.verb = "LIST" -> "list_begin"
               [] c.verb = "PORT" -> "port_begin"
               [] c.verb = "PASV" -> "pasv_begin"
               [] OTHER -> "pt_begin"
    /\ ctx' = "cmd"
    /\ UNCHANGED <<clientVars, unitVars, peerOpen, io, verb, ret, pret, attempt, dc, held>>

\* end of input: the loop breaks
stdin_eof ==
    /\ pc = "idle"
    /\ pc' = "cleanup"
    /\ UNCHANGED <<clientVars, unitVars, netVars, localVars, cmd, entry, log, result>>

\* RaxFtpClient::disconnect on a shutdown that succeeds (okay) or fails
disconnect(okay) ==
    /\ stream' = FALSE
    /\ IF okay
          THEN /\ state' = "Disconnected"
               /\ data_connection_info' = NoInfo
               /\ current_data_mode' = "Passive"
          ELSE UNCHANGED <<state, data_connection_info, current_data_mode>>
    /\ result' = [ok |-> okay, kind |-> "disconnect", code |-> Garbage]

\* after the loop: disconnect if still connected; shutdown can fail only on
\* a transport the peer has already closed
cleanup ==
    /\ pc = "cleanup"
    /\ pc' = "exited"
    /\ IF is_connected
          THEN \E okay \in {TRUE} \cup {peerOpen} : disconnect(okay)
          ELSE UNCHANGED <<state, stream, current_data_mode, data_connection_info, result>>
    /\ UNCHANGED <<config, unitVars, netVars, localVars, cmd, entry, log>>

(***************************************************************************)
(* The control channel                                                     *)
(***************************************************************************)
\* RaxFtpClient::send_command -> CommandConnection::send_bytes
\* ClientConfig::default: first port of the data port range
data_port_start == 2122
\* last port of the data port range
MaxDataPort == 2123

DataPorts == data_port_start..MaxDataPort

\* the first port of the range that TcpListener::bind accepts
FirstFree(free) == CHOOSE p \in free : \A q \in free : p <= q

\* the port of the address the user gave to PORT ("u1" is 127.0.0.1:2122)
PortOf(a) == IF a = "u1" THEN data_port_start ELSE 0

\* the port a PORT command names: the local address of the transfer's
\* listener (get_port_command), or the address the user typed
NamedPort ==
    IF verb # "PORT" THEN Garbage
    ELSE IF dc.mode = "Active" THEN dc.port
    ELSE PortOf(cmd.arg)

send_command ==
    /\ io = "send"
    /\ io' = "none"
    /\ \/ /\ ~stream
          /\ ret' = [ok |-> FALSE, code |-> Garbage, arg |-> "-", err |-> "ConnectionLost"]
          /\ UNCHANGED <<stream, netVars, log>>
       \/ /\ stream /\ peerOpen
          /\ \E a \in ServerAnswers(verb) :
                /\ inbox' = inbox \o owed \o a.now
                /\ owed' = a.later
                /\ peerOpen' = ~a.closes
          /\ ret' = NoRet
          /\ log' = Append(log, Event("send", verb, NamedPort, "-"))
          /\ UNCHANGED stream
       \/ /\ stream /\ ~peerOpen
          /\ \E o \in {"unnoticed", "BrokenPipe", "Io"} :
                /\ stream' = (o # "BrokenPipe")
                /\ ret' = CASE o = "unnoticed" -> NoRet
                            [] o = "BrokenPipe" ->
                                 [ok |-> FALSE, code |-> Garbage, arg |-> "-",
                                  err |-> "ConnectionLost"]
                            [] OTHER ->
                                 [ok |-> FALSE, code |-> Garbage, arg |-> "-", err |-> "Io"]
          /\ log' = Append(log, Event("send", verb, NamedPort, "-"))
          /\ UNCHANGED netVars
    /\ UNCHANGED <<state, current_data_mode, data_connection_info, config, unitVars, pc, verb, pret,
                   ctx, attempt, dc, held, cmd, entry, result>>

\* RaxFtpClient::read_response: CommandConnection::read_response, then
\* parse_response and update_state_from_response.  read_line wraps the socket
\* in a fresh BufReader on every call, so replies that had already arrived
\* behind the one returned may be dropped with the reader (k of them).
read_response ==
    /\ io = "read"
    /\ io' = "none"
    /\ \/ /\ ~stream
          /\ ret' = [ok |-> FALSE, code |-> Garbage, arg |-> "-", err |-> "NotConnected"]
          /\ UNCHANGED <<state, current_data_mode, data_connection_info, inbox, log, pc>>
       \/ /\ stream /\ inbox # <<>>
          /\ LET r == Head(inbox)
                 p == parse_response(r)
                 s == IF p.ok
                         THEN update_state_from_response(p.code, state, current_data_mode,
                                                         data_connection_info, stream)
                         ELSE Session(state, current_data_mode, data_connection_info)
             IN /\ ret' = [ok |-> TRUE, code |-> r.code, arg |-> r.arg, err |-> "-"]
                /\ state' = s.state
                /\ current_data_mode' = s.mode
                /\ data_connection_info' = s.info
                /\ log' = Append(log, Event("read", "-", r.code, r.tag))
          /\ \E k \in 0..(Len(inbox) - 1) : inbox' = SubSeq(inbox, 2 + k, Len(inbox))
          /\ UNCHANGED pc
       \/ /\ stream /\ inbox = <<>> /\ (owed = <<>> \/ dc.stream) /\ peerOpen
          /\ ret' = [ok |-> FALSE, code |-> Garbage, arg |-> "-", err |-> "Io"]
          /\ log' = Append(log, Event("read_fail", "-", Garbage, "-"))
          /\ UNCHANGED <<state, current_data_mode, data_connection_info, inbox, pc>>
       \/ /\ stream /\ inbox = <<>> /\ owed = <<>> /\ ~peerOpen
          /\ pc' = "hung"
          /\ UNCHANGED <<state, current_data_mode, data_connection_info, inbox, log, ret>>
    /\ UNCHANGED <<stream, config, unitVars, peerOpen, owed, verb, pret, ctx, attempt, dc, held, cmd,
                   entry, result>>

\* the server ends the data phase of a transfer and sends its final reply
server_final ==
    /\ owed # <<>>
    /\ ~dc.stream
    /\ inbox' = inbox \o owed
    /\ owed' = <<>>
    /\ UNCHANGED <<clientVars, unitVars, peerOpen, pc, localVars, cmd, entry, log, result>>

(***************************************************************************)
(* The data connection                                                     *)
(***************************************************************************)
\* DataConnection::new_port_mode (a listener bound to port p) / new_passive_mode
new_port_mode(p) == [mode |-> "Active", listener |-> TRUE, stream |-> FALSE, port |-> p]
new_passive_mode == [mode |-> "Passive", listener |-> FALSE, stream |-> FALSE, port |-> 0]

\* accept_connection (Active) or connect_to_server (Passive), as the handlers
\* choose it from current_data_mode; okay: the server's side was reachable
EstablishStream(okay, onOk) ==
    /\ log' = Append(log, Event(IF current_data_mode = "Active" THEN "accept" ELSE "connect",
                                "-", IF okay THEN 1 ELSE 0, "-"))
    /\ IF okay
          THEN /\ dc' = [dc EXCEPT !.stream = TRUE]
               /\ Goto(onOk)
               /\ UNCHANGED <<pret, ctx, attempt, held, result>>
          ELSE Return(FALSE, "DataConnectionFailed", Garbage)
    /\ UNCHANGED <<clientVars, unitVars, netVars, cmd, entry>>

\* establish_data_connection: new_port_mode in Active mode (bound: a port of
\* the range was free), establish_passive_connection in Passive mode, which
\* negotiates PASV itself when no data-connection info is stored
establish_data_connection(onOk) ==
    /\ Quiet
    /\ IF current_data_mode = "Active"
          THEN \E busy \in SUBSET DataPorts :
                  IF DataPorts \ busy # {}
                     THEN /\ dc' = new_port_mode(FirstFree(DataPorts \ busy))
                          /\ Goto(onOk)
                          /\ UNCHANGED <<pret, ctx, attempt, held, result>>
                     ELSE Return(FALSE, "DataConnectionFailed", Garbage)
          ELSE IF data_connection_info # NoInfo
                  THEN /\ dc' = new_passive_mode
                       /\ Goto(onOk)
                       /\ UNCHANGED <<pret, ctx, attempt, held, result>>
                  ELSE /\ attempt' = 1
                       /\ ctx' = "estab"
                       /\ Goto("pasv_begin")
                       /\ UNCHANGED <<pret, dc, held, result>>

(***************************************************************************)
(* handle_pasv_command, called for the PASV command ("cmd"), by            *)
(* auto_establish_pasv_mode ("auto") and by establish_passive_connection   *)
(* ("estab")                                                               *)
(***************************************************************************)
PasvReturn(r, code) ==
    CASE ctx = "cmd" -> Return(r # "err",
                               IF r # "err" THEN "reply"
                               ELSE IF ret.ok THEN "DataConnectionFailed" ELSE ret.err,
                               code)
      [] ctx = "auto" -> /\ pret' = r
                         /\ Goto("auto_ret")
                         /\ UNCHANGED <<ctx, attempt, dc, held, result>>
      [] OTHER -> /\ pret' = r
                  /\ Goto("estab_ret")
                  /\ UNCHANGED <<ctx, attempt, dc, held, result>>

handle_pasv_command ==
    \/ /\ pc = "pasv_begin" /\ io = "none"
       /\ CallSend("PASV", "pasv_sent")
       /\ Quiet
       /\ UNCHANGED <<pret, ctx, attempt, dc, held, result>>
    \/ /\ pc = "pasv_sent" /\ io = "none"
       /\ Quiet
       /\ IF ret.ok
             THEN CallRead("pasv_got") /\ UNCHANGED <<pret, ctx, attempt, dc, held, result>>
             ELSE PasvReturn("err", Garbage)
    \/ /\ pc = "pasv_got" /\ io = "none"
       /\ UNCHANGED <<state, stream, config, unitVars, netVars, cmd, entry, log>>
       /\ IF ~ret.ok
             THEN /\ UNCHANGED <<current_data_mode, data_connection_info>>
                  /\ PasvReturn("err", Garbage)
             ELSE LET o == pasv_outcome(ret.code, PasvText(ret.arg), current_data_mode,
                                        data_connection_info)
                  IN /\ current_data_mode' = o.mode
                     /\ data_connection_info' = o.info
                     /\ CASE o.ret = "panic" ->
                               /\ pc' = "panicked"
                               /\ UNCHANGED <<localVars, result>>
                          [] o.ret = "DataConnectionFailed" -> PasvReturn("err", Garbage)
                          [] ret.code = 227 -> PasvReturn("227", 227)
                          [] OTHER -> PasvReturn("other", ret.code)

\* the backoff of the two PASV retry loops after failed attempt a: the
\* thread sleeps a seconds, unless a was the last attempt
PasvBackoff(a) == IF a < MAX_RETRIES THEN <<Event("sleep", "-", a, "-")>> ELSE <<>>

\* auto_establish_pasv_mode, after handle_pasv_command returned
auto_establish_pasv_mode ==
    /\ pc = "auto_ret" /\ io = "none"
    /\ UNCHANGED <<state, stream, data_connection_info, config, unitVars, netVars, cmd, entry>>
    /\ IF pret = "227"
          THEN /\ current_data_mode' = "Passive"
               /\ Goto("list_establish")
               /\ UNCHANGED <<pret, ctx, attempt, dc, held, result, log>>
          ELSE /\ UNCHANGED current_data_mode
               /\ log' = log \o PasvBackoff(attempt)
               /\ IF attempt < MAX_RETRIES
                     THEN /\ attempt' = attempt + 1
                          /\ Goto("pasv_begin")
                          /\ UNCHANGED <<pret, ctx, dc, held, result>>
                     ELSE Return(FALSE, "DataConnectionFailed", Garbage)

\* establish_passive_connection, after handle_pasv_command returned; the last
\* attempt's own error is returned when handle_pasv_command failed
establish_passive_connection ==
    /\ pc = "estab_ret" /\ io = "none"
    /\ UNCHANGED <<clientVars, unitVars, netVars, cmd, entry>>
    /\ IF pret = "227"
          THEN /\ dc' = new_passive_mode
               /\ Goto("stor_have_dc")
               /\ UNCHANGED <<pret, ctx, attempt, held, result, log>>
          ELSE /\ log' = log \o PasvBackoff(attempt)
               /\ IF attempt < MAX_RETRIES
                     THEN /\ attempt' = attempt + 1
                          /\ Goto("pasv_begin")
                          /\ UNCHANGED <<pret, ctx, dc, held, result>>
                     ELSE Return(FALSE,
                                 IF pret = "other" \/ ret.ok THEN "DataConnectionFailed"
                                                            ELSE ret.err,
                                 Garbage)

(***************************************************************************)
(* The command handlers                                                    *)
(***************************************************************************)
KeepLocals == UNCHANGED <<pret, ctx, attempt, dc, held, result>>

\* `self.send_command(..)?` returned: go on, or return its error
AfterSend(onOk) ==
    IF ret.ok THEN onOk /\ KeepLocals ELSE Return(FALSE, ret.err, Garbage)

\* the PORT reply of a transfer in Active mode
AfterPortReply(onOk) ==
    IF ~ret.ok THEN Return(FALSE, ret.err, Garbage)
    ELSE IF ret.code # 200 THEN Return(TRUE, "PORT command failed", ret.code)
    ELSE onOk /\ KeepLocals

\* the final read_response of a transfer: `self.read_response()?` after a
\* transfer that succeeded, `let _ = self.read_response(); Err(e)` otherwise
AfterFinalReply ==
    IF held # "none" THEN Return(FALSE, held, Garbage)
    ELSE IF ret.ok THEN Return(TRUE, "reply", ret.code)
    ELSE Return(FALSE, ret.err, Garbage)

\* the arm `_ =>` of execute_command: send the command, read one reply
passthrough ==
    \/ /\ pc = "pt_begin" /\ io = "none"
       /\ Quiet /\ KeepLocals
       /\ CallSend(cmd.verb, "pt_sent")
    \/ /\ pc = "pt_sent" /\ io = "none"
       /\ Quiet
       /\ AfterSend(CallRead("pt_got"))
    \/ /\ pc = "pt_got" /\ io = "none"
       /\ Quiet
       /\ IF ret.ok THEN Return(TRUE, "reply", ret.code) ELSE Return(FALSE, ret.err, Garbage)

handle_port_command ==
    \/ /\ pc = "port_begin" /\ io = "none"
       /\ Quiet
       /\ IF cmd.arg = "bad"
             THEN Return(FALSE, "InvalidConfigValue", Garbage)
             ELSE CallSend("PORT", "port_sent") /\ KeepLocals
    \/ /\ pc = "port_sent" /\ io = "none"
       /\ Quiet
       /\ AfterSend(CallRead("port_got"))
    \/ /\ pc = "port_got" /\ io = "none"
       /\ UNCHANGED <<state, stream, config, unitVars, netVars, cmd, entry, log>>
       /\ IF ret.ok /\ ret.code = 200
             THEN /\ current_data_mode' = "Active"
                  /\ data_connection_info' = [mode |-> "Active", host |-> cmd.arg]
             ELSE UNCHANGED <<current_data_mode, data_connection_info>>
       /\ IF ret.ok THEN Return(TRUE, "reply", ret.code) ELSE Return(FALSE, ret.err, Garbage)

handle_stor_command ==
    \/ /\ pc = "stor_begin" /\ io = "none"
       /\ Quiet
       /\ \E valid \in BOOLEAN :
             IF valid THEN Goto("stor_establish") /\ KeepLocals
                      ELSE Return(FALSE, "FileNotFound", Garbage)
    \/ /\ pc = "stor_establish" /\ io = "none"
       /\ establish_data_connection("stor_have_dc")
    \/ /\ pc = "stor_have_dc" /\ io = "none"
       /\ Quiet /\ KeepLocals
       /\ IF current_data_mode = "Active"
             THEN CallSend("PORT", "stor_port_sent")
             ELSE CallSend("STOR", "stor_sent")
    \/ /\ pc = "stor_port_sent" /\ io = "none"
       /\ Quiet
       /\ AfterSend(CallRead("stor_port_got"))
    \/ /\ pc = "stor_port_got" /\ io = "none"
       /\ Quiet
       /\ AfterPortReply(CallSend("STOR", "stor_sent"))
    \/ /\ pc = "stor_sent" /\ io = "none"
       /\ Quiet
       /\ AfterSend(CallRead("stor_got"))
    \/ /\ pc = "stor_got" /\ io = "none"
       /\ Quiet
       /\ IF ~ret.ok THEN Return(FALSE, ret.err, Garbage)
          ELSE IF ret.code # 150 THEN Return(TRUE, "STOR command failed", ret.code)
          ELSE Goto("stor_connect") /\ KeepLocals
    \/ /\ pc = "stor_connect" /\ io = "none"
       /\ \E okay \in BOOLEAN : EstablishStream(okay, "stor_upload")
    \* upload_file_with_progress(data_connection, ..): the call site hands the
    \* connection over (moved: it is dropped when the call returns), the callee
    \* is declared to borrow it (&mut: it stays open until the handler returns);
    \* the callee itself never closes it.  Both outcomes are kept.
    \/ /\ pc = "stor_upload" /\ io = "none"
       /\ \E okay \in BOOLEAN :
             /\ held' = IF okay THEN "none" ELSE "TransferFailed"
             /\ log' = Append(log, Event("upload", "-", IF okay THEN 1 ELSE 0, "-"))
       /\ \E moved \in BOOLEAN : dc' = IF moved THEN drop(dc) ELSE dc
       /\ CallRead("stor_final")
       /\ UNCHANGED <<clientVars, unitVars, netVars, cmd, entry, pret, ctx, attempt, result>>
    \/ /\ pc = "stor_final" /\ io = "none"
       /\ Quiet
       /\ AfterFinalReply

handle_list_command ==
    \/ /\ pc = "list_begin" /\ io = "none"
       /\ Quiet
       /\ IF data_connection_info = NoInfo
             THEN /\ attempt' = 1
                  /\ ctx' = "auto"
                  /\ Goto("pasv_begin")
                  /\ UNCHANGED <<pret, dc, held, result>>
             ELSE Goto("list_establish") /\ KeepLocals
    \/ /\ pc = "list_establish" /\ io = "none"
       /\ establish_data_connection("list_have_dc")
    \/ /\ pc = "list_have_dc" /\ io = "none"
       /\ Quiet /\ KeepLocals
       /\ IF current_data_mode = "Active"
             THEN CallSend("PORT", "list_port_sent")
             ELSE CallSend("LIST", "list_sent")
    \/ /\ pc = "list_port_sent" /\ io = "none"
       /\ Quiet
       /\ AfterSend(CallRead("list_port_got"))
    \/ /\ pc = "list_port_got" /\ io = "none"
       /\ Quiet
       /\ AfterPortReply(CallSend("LIST", "list_sent"))
    \/ /\ pc = "list_sent" /\ io = "none"
       /\ Quiet
       /\ AfterSend(Goto("list_connect"))
    \/ /\ pc = "list_connect" /\ io = "none"
       /\ \E okay \in BOOLEAN : EstablishStream(okay, "list_data")
    \* read_directory_listing(data_connection) consumes and closes the connection
    \/ /\ pc = "list_data" /\ io = "none"
       /\ \E okay \in BOOLEAN :
             /\ held' = IF okay THEN "none" ELSE "TransferFailed"
             /\ log' = Append(log, Event("listing", "-", IF okay THEN 1 ELSE 0, "-"))
       /\ dc' = drop(dc)
       /\ CallRead("list_final")
       /\ UNCHANGED <<clientVars, unitVars, netVars, cmd, entry, pret, ctx, attempt, result>>
    \/ /\ pc = "list_final" /\ io = "none"
       /\ Quiet
       /\ AfterFinalReply

(***************************************************************************)
(* The program                                                             *)
(***************************************************************************)
Next ==
    \/ connect_with_retries
    \/ \E c \in FtpCommand : execute_command(c)
    \/ stdin_eof
    \/ cleanup
    \/ send_command
    \/ read_response
    \/ server_final
    \/ passthrough
    \/ handle_port_command
    \/ handle_pasv_command
    \/ auto_establish_pasv_mode
    \/ establish_passive_connection
    \/ handle_stor_command
    \/ handle_list_command

Spec == Init /\ [][Next]_vars

(***************************************************************************)
(* Properties                                                              *)
(***************************************************************************)
\* execute_command has returned to the session loop
Returned == pc \in {"idle", "cleanup"} /\ cmd # NoCmd /\ result.kind \notin {"-", "connect"}

\* this step is a read_response that returned a reply
ReadStep == Len(log') = Len(log) + 1 /\ log'[Len(log')].op = "read"

IsEstablish(e) == e.op \in {"accept", "connect"}
IsReadAttempt(e) == e.op \in {"read", "read_fail"}

\* C1: a command other than USER, PASS, QUIT and unrecognized input, executed
\* while Connected and not Authenticated, writes nothing to the control
\* channel and returns a not-authenticated error.
C1_AuthGating ==
    (cmd # NoCmd /\ entry = "Connected" /\ cmd.verb \notin {"USER", "PASS", "QUIT", "UNKNOWN"})
        => /\ \A i \in DOMAIN log : log[i].op # "send"
           /\ Returned => (~result.ok /\ result.kind = "NotAuthenticated")

\* C2: once the STOR handler has read a 150 reply to STOR, it makes exactly
\* one further read of the control channel before it returns, on every path.
C2_FinalReplyAlwaysRead ==
    (Returned /\ cmd.verb = "STOR")
        => \A i \in DOMAIN log :
              (/\ log[i].op = "send" /\ log[i].verb = "STOR"
               /\ i < Len(log)
               /\ log[i + 1].op = "read" /\ log[i + 1].code = 150)
                  => Cardinality({j \in (i + 2)..Len(log) : IsReadAttempt(log[j])}) = 1

\* C3: when execute_command returns, no reply to that command is unread or
\* still to come on the control channel, and every reply it read answered it.
C3_NoReplyLeftUnread ==
    Returned
        => /\ \A i \in DOMAIN inbox : inbox[i].tag # "cur"
           /\ \A i \in DOMAIN owed : owed[i].tag # "cur"
           /\ \A i \in DOMAIN log : log[i].op = "read" => log[i].tag = "cur"

\* C4: in STOR and LIST the data stream is established (accept or connect)
\* only after a 150 reply has been read for the transfer command sent.
C4_DataStreamAfter150 ==
    \A j \in DOMAIN log :
        IsEstablish(log[j])
            => \E i \in 1..(j - 1) :
                  /\ log[i].op = "read" /\ log[i].code = 150
                  /\ \E h \in 1..(i - 1) :
                        log[h].op = "send" /\ log[h].verb \in {"STOR", "LIST"}

\* C5: execute_command(RETR) whose RETR is answered 150 establishes the data
\* stream, receives the file and then reads the final reply.
C5_RetrTransfers ==
    (/\ Returned /\ cmd.verb = "RETR"
     /\ \E i \in DOMAIN log : log[i].op = "read" /\ log[i].code = 150 /\ log[i].tag = "cur")
        => /\ \E j \in DOMAIN log : IsEstablish(log[j])
           /\ \E j \in DOMAIN log : log[j].op = "download"
           /\ Cardinality({j \in DOMAIN log : IsReadAttempt(log[j])}) = 2

\* C6: reading a 230 reply while the session is Connected moves it to
\* Authenticated.
C6_LoginAuthenticates ==
    [][(ReadStep /\ log'[Len(log')].code = 230 /\ state = "Connected")
          => state' = "Authenticated"]_vars

C6_Witness ==
    /\ entry = "Connected" /\ state = "Authenticated"
    /\ Len(log) = 2 /\ log[2].op = "read" /\ log[2].code = 230

\* C7: reading a reply whose code is neither 230 nor 221 (530 included, and
\* a reply that does not parse) leaves the session state, the data mode and
\* the data-connection info unchanged, in every session state.
C7_OtherRepliesKeepSession ==
    [][(ReadStep /\ log'[Len(log')].code \notin {230, 221})
          => UNCHANGED <<state, current_data_mode, data_connection_info>>]_vars

C7_Witness ==
    /\ entry = "Connected" /\ state = "Connected"
    /\ Len(log) = 2 /\ log[2].op = "read" /\ log[2].code = 530

\* C8: reading a 221 reply with the control socket still present moves an
\* Authenticated session to Connected and keeps the data-connection info
\* and the data mode.
C8_LogoutKeepsDataChannel ==
    [][(ReadStep /\ log'[Len(log')].code = 221 /\ stream' /\ state = "Authenticated")
          => /\ state' = "Connected"
             /\ UNCHANGED <<current_data_mode, data_connection_info>>]_vars

C8_Witness ==
    /\ entry = "Authenticated" /\ state = "Connected" /\ stream
    /\ cmd.verb = "LOGOUT"
    /\ Len(log) = 2 /\ log[2].op = "read" /\ log[2].code = 221
    /\ data_connection_info # NoInfo

\* C9: when the server answers QUIT with 221 and closes the transport, then
\* after execute_command(QUIT) returns the session is Disconnected, the
\* data-connection info is cleared and the session loop is left.
C9_QuitDisconnects ==
    (/\ Returned /\ cmd.verb = "QUIT" /\ ~peerOpen
     /\ result.ok /\ result.code = 221
     /\ log[Len(log)].op = "read" /\ log[Len(log)].tag = "cur")
        => /\ state = "Disconnected"
           /\ data_connection_info = NoInfo
           /\ pc = "cleanup"

\* C10: after disconnect() the session is Disconnected, the control socket
\* is absent, the data-connection info is cleared and the data mode is
\* Passive, also when shutting the socket down reported an error.
C10_DisconnectResets ==
    (pc = "exited" /\ result.kind = "disconnect")
        => /\ state = "Disconnected"
           /\ ~stream
           /\ data_connection_info = NoInfo
           /\ current_data_mode = "Passive"

\* C11: a reply that fails to parse never alters session state, data mode or
\* data-connection info, and read_response still returns the raw reply to its
\* caller as a success value
C11_UnparsedReplyKeepsSession ==
    [][(ReadStep /\ log'[Len(log')].code = Garbage)
          => /\ UNCHANGED <<state, current_data_mode, data_connection_info>>
             /\ ret'.ok
             /\ ret'.code = Garbage]_vars

\* an authenticated session has just been handed back a reply without a code
C11_Witness ==
    /\ Returned
    /\ result.ok
    /\ result.code = Garbage
    /\ log # <<>>
    /\ log[Len(log)].op = "read"
    /\ log[Len(log)].code = Garbage
    /\ state = "Authenticated"

\* connect_with_retries has returned to run_interactive and no command has run yet
ConnectReturned == pc = "idle" /\ cmd = NoCmd

ConnectAttempts == Cardinality({i \in DOMAIN log : log[i].op = "tcp_connect"})

\* C12: when every attempt fails, connect_with_retries makes exactly
\* config.max_retries connection attempts and returns ConnectionTimeout, whatever
\* the errors of the attempts were; a successful attempt is the last one made and
\* leaves the session Connected
C12_ConnectRetries ==
    ConnectReturned =>
        IF result.ok
           THEN /\ state = "Connected"
                /\ ConnectAttempts \in 1..config.max_retries
                /\ \A i \in DOMAIN log : (log[i].tag = "ok") <=> (i = Len(log))
           ELSE /\ result.kind = "ConnectionTimeout"
                /\ ConnectAttempts = config.max_retries
                /\ \A i \in DOMAIN log : log[i].tag # "ok"
                /\ state = "Disconnected"

\* three attempts failed in three different ways
C12_Witness ==
    /\ ConnectReturned
    /\ ~result.ok
    /\ config.max_retries = 3
    /\ ConnectAttempts = 3
    /\ {"refused", "timeout", "greeting"} \subseteq {log[i].tag : i \in DOMAIN log}

(***************************************************************************)
(* CommandConnection::read_response, line by line                          *)
(*                                                                         *)
(* The server has written the lines of `wire` to the control socket and    *)
(* then keeps the connection open or closes it.  A line is its characters, *)
(* the line feed included; the message text of a line is left out.         *)
(***************************************************************************)
\* lines on the wire when the call starts
MaxLines == 3
\* times read_line is followed returning Ok("") at end of stream
MaxEof == 2

sessionVars == <<state, current_data_mode, data_connection_info, config, inbox, owed, pc,
                 localVars, cmd, entry, log, result>>
readerRest == <<sessionVars, pasv, upload, data, parsed, typed, download>>

LineCodes == {<<"2", "2", "0">>, <<"2", "3", "0">>}

\* "220 \n", "220-\n", "220\n" for both codes, and the empty line "\n"
Lines ==
    {c \o <<sep, "\n">> : c \in LineCodes, sep \in {" ", "-"}}
        \cup {c \o <<"\n">> : c \in LineCodes}
        \cup {<<"\n">>}

SeqUpTo(S, n) == UNION {[1..k -> S] : k \in 0..n}

RECURSIVE Concat(_)
Concat(ls) == IF ls = <<>> THEN <<>> ELSE Head(ls) \o Concat(Tail(ls))

ReaderInit ==
    /\ download = NoDownload
    /\ typed = NoTyped
    /\ parsed = NoParsed
    /\ data = NoData
    /\ state = "Connected"
    /\ stream \in BOOLEAN
    /\ peerOpen \in BOOLEAN
    /\ config = [max_retries |-> MaxRetries]
    /\ pc = "idle"
    /\ SessionAtRest
    /\ wire \in SeqUpTo(Lines, MaxLines)
    /\ reader = [NoFrame EXCEPT !.pc = "loop", !.sent = wire]
    /\ pasv = NoPasv
    /\ upload = NoUpload

\* the loop's `break` conditions for the line just read
ends_response(line, first_line, expected_code) ==
    IF first_line
       THEN Len(line) >= 4 /\ line[4] = " "
       ELSE /\ expected_code # <<>>
            /\ Len(line) >= 4
            /\ SubSeq(line, 1, 3) = expected_code
            /\ line[4] = " "

\* expected_code after the line just read
next_expected(line, first_line, expected_code) ==
    IF first_line /\ Len(line) >= 4 /\ line[4] = "-"
       THEN SubSeq(line, 1, 3)
       ELSE expected_code

\* one iteration of the loop after read_line returned Ok(line)
loop_body(f, line) ==
    IF ends_response(line, f.first_line, f.expected_code)
       THEN [f EXCEPT !.response = @ \o line, !.pc = "returned", !.out = "Ok"]
       ELSE [f EXCEPT !.response = @ \o line,
                      !.expected_code = next_expected(line, f.first_line, @),
                      !.first_line = FALSE]

\* `self.read_line()?` returned Err(e)
loop_error(f, e) == [f EXCEPT !.pc = "returned", !.out = e]

\* read_line wraps the socket in a new BufReader, which takes every byte that
\* has arrived; the line is returned and the k lines buffered behind it go
\* with the reader
read_line_ok ==
    /\ reader.pc = "loop"
    /\ stream /\ wire # <<>>
    /\ \E k \in 0..(Len(wire) - 1) : wire' = SubSeq(wire, 2 + k, Len(wire))
    /\ reader' = loop_body(reader, Head(wire))
    /\ UNCHANGED <<stream, peerOpen, readerRest>>

\* at end of stream BufRead::read_line returns Ok(0): read_line returns Ok("")
read_line_eof ==
    /\ reader.pc = "loop"
    /\ stream /\ wire = <<>> /\ ~peerOpen
    /\ reader.eofs < MaxEof
    /\ reader' = loop_body([reader EXCEPT !.eofs = @ + 1], <<>>)
    /\ UNCHANGED <<stream, peerOpen, wire, readerRest>>

\* read_line fails: no socket (NotConnected); nothing arrives within the read
\* timeout, or the peer has reset the connection (Io, the socket is kept);
\* the connection was aborted (ConnectionLost, the socket is dropped)
read_line_err ==
    /\ reader.pc = "loop"
    /\ \/ /\ ~stream
          /\ reader' = loop_error(reader, "NotConnected")
          /\ UNCHANGED stream
       \/ /\ stream /\ wire = <<>> /\ peerOpen
          /\ reader' = loop_error(reader, "Io")
          /\ UNCHANGED stream
       \/ /\ stream /\ wire = <<>> /\ ~peerOpen
          /\ \E e \in {"Io", "ConnectionLost"} :
                /\ reader' = loop_error(reader, e)
                /\ stream' = (e = "Io")
    /\ UNCHANGED <<peerOpen, wire, readerRest>>

connection_read_response == read_line_ok \/ read_line_eof \/ read_line_err

ReaderSpec == ReaderInit /\ [][connection_read_response]_vars

\* the reply that starts the wire: a first line "ddd " alone, or a first line
\* "ddd-" up to the first later line "ddd "; 0 when the wire holds no whole reply
OpensMultiLine(l) == Len(l) >= 4 /\ l[4] = "-"
ClosesReply(l, first) == Len(l) >= 4 /\ SubSeq(l, 1, 3) = SubSeq(first, 1, 3) /\ l[4] = " "
ReplyEnd(s) ==
    IF s = <<>> THEN 0
    ELSE IF Len(s[1]) >= 4 /\ s[1][4] = " " THEN 1
    ELSE IF OpensMultiLine(s[1]) /\ \E i \in 2..Len(s) : ClosesReply(s[i], s[1])
            THEN CHOOSE i \in 2..Len(s) :
                    /\ ClosesReply(s[i], s[1])
                    /\ \A j \in 2..(i - 1) : ~ClosesReply(s[j], s[1])
    ELSE 0

\* C13: read_response on a reply whose first line has separator '-' reads and
\* appends lines up to the first line with the same code followed by ' ' (a line
\* with the code followed by '-' does not end it) and returns exactly those
\* lines; a first line with separator ' ' is returned alone
C13_MultiLineRead ==
    (/\ reader.pc = "returned"
     /\ reader.out # "NotConnected"
     /\ ReplyEnd(reader.sent) > 0)
        => /\ reader.out = "Ok"
           /\ reader.response = Concat(SubSeq(reader.sent, 1, ReplyEnd(reader.sent)))

\* C14: when the server closes the control connection while read_response is
\* reading (before the first line or between the lines of a multi-line reply),
\* the call ends, the control socket is cleared and ConnectionLost is returned
C14_EofEndsRead ==
    reader.eofs > 0
        => /\ reader.pc = "returned"
           /\ reader.out = "ConnectionLost"
           /\ ~stream

(***************************************************************************)
(* Further properties of the session (Spec)                                *)
(***************************************************************************)
\* C15: a transport error of send_command or read_response on the control
\* channel (broken pipe, aborted, reset, timed out or any other I/O error)
\* clears the control socket, so that is_connected() is false afterwards
C15_TransportErrorClearsSocket ==
    (io = "none" /\ ~ret.ok /\ ret.err \in {"Io", "ConnectionLost"})
        => ~connection_is_connected(stream) /\ ~is_connected

Sends(v) == {i \in DOMAIN log : log[i].op = "send" /\ log[i].verb = v}
Sleeps == {i \in DOMAIN log : log[i].op = "sleep"}

\* C16: a transfer that finds no negotiated data mode negotiates Passive mode
\* under the retry policy of connection establishment: PASV is sent at most
\* config.max_retries times, the sleep after failed attempt N lasts N seconds,
\* and when every attempt has failed the transfer returns DataConnectionFailed
\* without sending its own command
C16_PasvRetryPolicy ==
    cmd.verb \in {"STOR", "LIST"} =>
        /\ Cardinality(Sends("PASV")) <= config.max_retries
        /\ \A i \in Sleeps : log[i].code = Cardinality({j \in Sleeps : j <= i})
        /\ (Returned /\ pc = "idle" /\ Sleeps # {} /\ current_data_mode = "Passive"
                /\ data_connection_info = NoInfo)
              => /\ ~result.ok
                 /\ result.kind = "DataConnectionFailed"
                 /\ Sends(cmd.verb) = {}

\* C17: once a data mode has been negotiated (data-connection info is stored),
\* a transfer reuses it: it sends no further PASV or PORT command
C17_NegotiatedModeReused ==
    [][(/\ cmd.verb \in {"STOR", "LIST", "RETR"}
        /\ data_connection_info # NoInfo
        /\ Len(log') = Len(log) + 1
        /\ log'[Len(log')].op = "send")
          => log'[Len(log')].verb \notin {"PASV", "PORT"}]_vars

(***************************************************************************)
(* handle_pasv_command on the text of the reply it has read                *)
(***************************************************************************)
\* characters of a reply text behind the code
MaxText == 4

pasvRest == <<state, stream, config, netVars, pc, localVars, cmd, entry, log, result,
              wire, reader, upload, data, parsed, typed, download>>

PasvInit ==
    /\ download = NoDownload
    /\ typed = NoTyped
    /\ parsed = NoParsed
    /\ data = NoData
    /\ state = "Connected"
    /\ stream = TRUE
    /\ peerOpen = TRUE
    /\ config = [max_retries |-> MaxRetries]
    /\ pc = "idle"
    /\ inbox = <<>> /\ owed = <<>>
    /\ io = "none" /\ verb = "-" /\ ret = NoRet /\ pret = "-" /\ ctx = "-"
    /\ attempt = 0 /\ dc = NoDc /\ held = "none"
    /\ cmd = NoCmd /\ entry = "Disconnected" /\ log = <<>> /\ result = NoResult
    /\ wire = <<>> /\ reader = NoFrame /\ upload = NoUpload
    /\ \E m \in {"Passive", "Active"} :
          /\ current_data_mode = m
          /\ data_connection_info \in
                IF m = "Active" THEN {[mode |-> "Active", host |-> "u1"]}
                ELSE {NoInfo, [mode |-> "Passive", host |-> "p0"]}
    /\ \E c \in {227, 500}, t \in SeqUpTo(PasvChars, MaxText) :
          pasv = [pc |-> "got", code |-> c, text |-> t, out |-> "-",
                  was |-> <<current_data_mode, data_connection_info>>]

\* read_response returned Ok(response): the rest of handle_pasv_command
handle_pasv_reply ==
    /\ pasv.pc = "got"
    /\ LET o == pasv_outcome(pasv.code, pasv.text, current_data_mode, data_connection_info)
       IN /\ current_data_mode' = o.mode
          /\ data_connection_info' = o.info
          /\ pasv' = [pasv EXCEPT !.pc = IF o.ret = "panic" THEN "panicked" ELSE "returned",
                                  !.out = o.ret]
    /\ UNCHANGED pasvRest

PasvSpec == PasvInit /\ [][handle_pasv_reply]_vars

\* the first c of t behind position from, 0 when there is none
find_after(t, c, from) ==
    IF \E i \in DOMAIN t : i > from /\ t[i] = c
       THEN CHOOSE i \in DOMAIN t :
               i > from /\ t[i] = c /\ \A j \in (from + 1)..(i - 1) : t[j] # c
       ELSE 0

\* the text holds a well-formed "(ip:port)" token: an address and nothing else
\* stands between the first "(" and the first ")" behind it
WellFormedPasv(t) ==
    LET start == find(t, "(")
        end == find_after(t, ")", start)
    IN /\ start > 0
       /\ end > 0
       /\ SubSeq(t, start + 1, end - 1) \in {<<a>> : a \in Addresses}

\* C18: on a 227 reply with a well-formed "(ip:port)" token handle_pasv_command
\* stores that address with mode Passive; on any other 227 reply (no
\* parentheses, ")" before "(", unparsable address) it returns
\* DataConnectionFailed and leaves data mode and info as they were; on a reply
\* with another code it returns the reply and changes nothing
C18_PasvReplyHandling ==
    pasv.pc \in {"returned", "panicked"} =>
        IF pasv.code = 227 /\ WellFormedPasv(pasv.text)
           THEN /\ pasv.out = "Ok"
                /\ current_data_mode = "Passive"
                /\ data_connection_info =
                      [mode |-> "Passive", host |-> pasv.text[find(pasv.text, "(") + 1]]
           ELSE /\ pasv.out = IF pasv.code = 227 THEN "DataConnectionFailed" ELSE "Ok"
                /\ <<current_data_mode, data_connection_info>> = pasv.was

(***************************************************************************)
(* upload_file_with_progress over DataConnection::send_data                *)
(***************************************************************************)
\* bytes of the local file
MaxFile == 4
\* bytes of the read buffer (8192 in the program)
BufferSize == 2

Bytes == {"a", "b"}

uploadRest == <<clientVars, netVars, pc, io, verb, ret, pret, ctx, attempt, dc, held, cmd,
                entry, log, result, wire, reader, pasv, data, parsed, typed, download>>

\* upload_file_with_progress is called on an established data stream with
\* the file opened; the variables of the session are at rest
UploadInit ==
    /\ download = NoDownload
    /\ typed = NoTyped
    /\ parsed = NoParsed
    /\ data = NoData
    /\ state = "Authenticated"
    /\ stream = TRUE
    /\ peerOpen = TRUE
    /\ config = [max_retries |-> MaxRetries]
    /\ pc = "idle"
    /\ SessionAtRest
    /\ wire = <<>> /\ reader = NoFrame /\ pasv = NoPasv
    /\ \E f \in SeqUpTo(Bytes, MaxFile) : upload = [NoUpload EXCEPT !.pc = "loop", !.file = f]

Min(a, b) == IF a < b THEN a ELSE b

\* reader.read(&mut buffer) returns Ok(bytes_read) with bytes_read > 0 and
\* send_data returns Ok(bytes_sent): TcpStream::write has taken the first
\* bytes_sent bytes of the chunk
upload_chunk ==
    /\ upload.pc = "loop"
    /\ upload.pos < Len(upload.file)
    /\ \E bytes_read \in 1..Min(BufferSize, Len(upload.file) - upload.pos) :
          \E bytes_sent \in 1..bytes_read :
             upload' = [upload EXCEPT
                           !.pos = @ + bytes_read,
                           !.written = @ \o SubSeq(upload.file, upload.pos + 1,
                                                   upload.pos + bytes_sent),
                           !.total_sent = @ + bytes_sent,
                           !.transferred_bytes = @ + bytes_sent]
    /\ UNCHANGED uploadRest

\* send_data returns Err: the upload returns it
upload_send_fails ==
    /\ upload.pc = "loop"
    /\ upload.pos < Len(upload.file)
    /\ upload' = [upload EXCEPT !.pc = "returned", !.out = "DataConnectionFailed"]
    /\ UNCHANGED uploadRest

\* reader.read fails
upload_read_fails ==
    /\ upload.pc = "loop"
    /\ upload' = [upload EXCEPT !.pc = "returned", !.out = "TransferFailed"]
    /\ UNCHANGED uploadRest

\* reader.read returns Ok(0): end of file, the loop breaks and Ok(()) is returned
upload_eof ==
    /\ upload.pc = "loop"
    /\ upload.pos = Len(upload.file)
    /\ upload' = [upload EXCEPT !.pc = "returned", !.out = "Ok"]
    /\ UNCHANGED uploadRest

upload_file_with_progress ==
    upload_chunk \/ upload_send_fails \/ upload_read_fails \/ upload_eof

UploadSpec == UploadInit /\ [][upload_file_with_progress]_vars

\* C19: after an upload has returned success, the bytes written to the data
\* stream are the file's contents in order and the transferred-byte count is
\* the file size, however many bytes of a chunk each write accepted
C19_UploadWritesWholeFile ==
    (upload.pc = "returned" /\ upload.out = "Ok")
        => /\ upload.written = upload.file
           /\ upload.transferred_bytes = Len(upload.file)

(***************************************************************************)
(* Further properties of the session (Spec), continued                     *)
(***************************************************************************)
\* the reply texts a returned Ok value is made of: a handler returns the text
\* of one reply, as it is ("reply") or behind a "... command failed: " prefix
ReturnedReplies ==
    IF result.ok /\ result.kind \in {"reply", "STOR command failed", "PORT command failed"}
       THEN <<result.code>>
       ELSE <<>>

\* the STOR that has returned got its 150, uploaded the file and read a final reply
StorSucceeded ==
    /\ Returned
    /\ cmd.verb = "STOR"
    /\ result.ok
    /\ \E i \in DOMAIN log : log[i].op = "upload" /\ log[i].code = 1
    /\ log[Len(log)].op = "read"

\* C20: on a successful STOR the value returned to the caller is the text of
\* the preliminary (150) reply followed by the text of the final reply
C20_StorReturnsBothReplies ==
    StorSucceeded => ReturnedReplies = <<150, log[Len(log)].code>>


(***************************************************************************)
(* Session policy on a repeated login                                      *)
(***************************************************************************)
\* C21: execute_command(USER) on an Authenticated session writes nothing to
\* and reads nothing from the control channel, returns an
\* already-authenticated error, and leaves the state Authenticated.
C21_UserWhileAuthenticatedRejected ==
    (cmd # NoCmd /\ entry = "Authenticated" /\ cmd.verb = "USER")
        => /\ \A i \in DOMAIN log : log[i].op \notin {"send", "read", "read_fail"}
           /\ Returned => /\ ~result.ok
                          /\ result.kind = "AlreadyAuthenticated"
                          /\ state = "Authenticated"


(***************************************************************************)
(* DataConnection (src/connection/data.rs), one object call by call        *)
(***************************************************************************)
\* the host of a Passive connection: an IP address, or a name that
\* "host:port".parse::<SocketAddr>() rejects
ServerHosts == {"127.0.0.1", "localhost"}

dataRest == <<clientVars, netVars, pc, localVars, cmd, entry, log, result,
              wire, reader, pasv, upload, parsed, typed, download>>

DataInit ==
    /\ download = NoDownload
    /\ typed = NoTyped
    /\ parsed = NoParsed
    /\ state = "Authenticated"
    /\ stream = TRUE
    /\ peerOpen = TRUE
    /\ config = [max_retries |-> MaxRetries]
    /\ pc = "idle"
    /\ SessionAtRest
    /\ wire = <<>> /\ reader = NoFrame /\ pasv = NoPasv /\ upload = NoUpload
    /\ data = NoData

DataOk(text) == [ok |-> TRUE, err |-> "-", names |-> "-", text |-> text]
\* Err(DataConnectionFailed(message)); names: the method the message points to
DataErr(err, names) == [ok |-> FALSE, err |-> err, names |-> names, text |-> <<>>]

\* the call in progress has not returned: the thread is blocked in it
Blocked == [ok |-> FALSE, err |-> "blocked", names |-> "-", text |-> <<>>]
\* the object exists and its owner is not inside a call on it
Callable == data.conn.mode # "None" /\ data.out # Blocked

\* the call op has left the object as c and returned out
Called(op, c, out) ==
    data' = [conn |-> c, op |-> op, out |-> out, was |-> data.conn]

DataConnection_new_port_mode ==
    /\ data.conn = NoConn
    /\ \E busy \in SUBSET DataPorts :
          LET free == DataPorts \ busy IN
          IF free # {}
             THEN Called("new_port_mode",
                         [NoConn EXCEPT !.mode = "Active", !.listener = TRUE,
                                        !.local_addr = FirstFree(free)],
                         DataOk(<<>>))
             ELSE Called("new_port_mode", NoConn, DataErr("DataConnectionFailed", "-"))
    /\ UNCHANGED dataRest

DataConnection_new_passive_mode ==
    /\ data.conn = NoConn
    /\ \E h \in ServerHosts, p \in DataPorts :
          Called("new_passive_mode",
                 [NoConn EXCEPT !.mode = "Passive", !.server_host = h, !.server_port = p],
                 DataOk(<<>>))
    /\ UNCHANGED dataRest

get_port_command ==
    /\ Callable
    /\ IF data.conn.mode = "Active"
          THEN IF data.conn.local_addr # 0
                  THEN Called("get_port_command", data.conn,
                              DataOk(<<"PORT", "127.0.0.1", data.conn.local_addr>>))
                  ELSE Called("get_port_command", data.conn,
                              DataErr("DataConnectionFailed", "-"))
          \* "PORT command not applicable in passive mode"
          ELSE Called("get_port_command", data.conn, DataErr("DataConnectionFailed", "-"))
    /\ UNCHANGED dataRest

accept_connection ==
    /\ Callable
    /\ IF data.conn.mode = "Active"
          \* set_nonblocking(false), then the thread waits in listener.accept()
          THEN IF data.conn.listener
                  THEN Called("accept_connection", data.conn, Blocked)
                  ELSE Called("accept_connection", data.conn,
                              DataErr("DataConnectionFailed", "-"))
          \* "accept_connection not applicable in passive mode. Use
          \* connect_to_server instead."
          ELSE Called("accept_connection", data.conn,
                      DataErr("DataConnectionFailed", "connect_to_server"))
    /\ UNCHANGED dataRest

\* listener.accept() returns: the server has connected, or the call has
\* failed; the listener has no timeout, so nothing else ends the wait
listener_accept ==
    /\ data.op = "accept_connection" /\ data.out = Blocked
    /\ \E accepted \in BOOLEAN :
          data' = [data EXCEPT !.conn.stream = accepted,
                               !.out = IF accepted THEN DataOk(<<>>)
                                       ELSE DataErr("DataConnectionFailed", "-")]
    /\ UNCHANGED dataRest

connect_to_server ==
    /\ Callable
    /\ IF data.conn.mode = "Passive"
          THEN IF data.conn.server_host # "127.0.0.1"
                  THEN Called("connect_to_server", data.conn,
                              DataErr("DataConnectionFailed", "-"))
                  ELSE \E connected \in BOOLEAN :
                          IF connected
                             THEN Called("connect_to_server",
                                         [data.conn EXCEPT !.stream = TRUE], DataOk(<<>>))
                             ELSE Called("connect_to_server", data.conn,
                                         DataErr("DataConnectionFailed", "-"))
          \* "connect_to_server not applicable in active mode. Use
          \* accept_connection instead."
          ELSE Called("connect_to_server", data.conn,
                      DataErr("DataConnectionFailed", "accept_connection"))
    /\ UNCHANGED dataRest

\* send_data / receive_data: stream.write / stream.read on the stream, if any
send_data ==
    /\ Callable
    /\ IF data.conn.stream
          THEN \E written \in BOOLEAN :
                  Called("send_data", data.conn,
                         IF written THEN DataOk(<<>>)
                                    ELSE DataErr("DataConnectionFailed", "-"))
          ELSE Called("send_data", data.conn, DataErr("DataConnectionFailed", "-"))
    /\ UNCHANGED dataRest

receive_data ==
    /\ Callable
    /\ IF data.conn.stream
          THEN \E read \in BOOLEAN :
                  Called("receive_data", data.conn,
                         IF read THEN DataOk(<<>>)
                                 ELSE DataErr("DataConnectionFailed", "-"))
          ELSE Called("receive_data", data.conn, DataErr("DataConnectionFailed", "-"))
    /\ UNCHANGED dataRest

\* close: stream.take(), then `stream.shutdown(Both)?` returns early on an
\* error, before listener.take()
DataConnection_close ==
    /\ Callable
    /\ \E shutdown_ok \in BOOLEAN :
          IF data.conn.stream /\ ~shutdown_ok
             THEN Called("close", [data.conn EXCEPT !.stream = FALSE], DataErr("Io", "-"))
             ELSE Called("close", [data.conn EXCEPT !.stream = FALSE, !.listener = FALSE],
                         DataOk(<<>>))
    /\ UNCHANGED dataRest

\* impl Drop: `let _ = self.close()`, then the fields are released
DataConnection_drop ==
    /\ Callable
    /\ Called("drop", NoConn, DataOk(<<>>))
    /\ UNCHANGED dataRest

\* the steps the client takes on its own
DataCalls ==
    \/ DataConnection_new_port_mode
    \/ DataConnection_new_passive_mode
    \/ get_port_command
    \/ accept_connection
    \/ connect_to_server
    \/ send_data
    \/ receive_data
    \/ DataConnection_close
    \/ DataConnection_drop

DataNext == DataCalls \/ listener_accept

DataSpec == DataInit /\ [][DataNext]_vars

\* the client's thread keeps running; whether and when the server connects
\* to the listener is up to the server
DataFairSpec == DataSpec /\ WF_vars(DataCalls)

\* the method of the other mode that establishes the stream
Alternative(mode) == IF mode = "Passive" THEN "connect_to_server" ELSE "accept_connection"

\* C22: get_port_command and accept_connection on a Passive connection, and
\* connect_to_server on an Active one, return an error that names the
\* method to use instead and leave the connection as it was.
C22_WrongModeRejected ==
    (\/ data.op \in {"get_port_command", "accept_connection"} /\ data.was.mode = "Passive"
     \/ data.op = "connect_to_server" /\ data.was.mode = "Active")
        => /\ ~data.out.ok
           /\ data.out.names = Alternative(data.was.mode)
           /\ data.conn = data.was

\* C23: every close() leaves the connection without stream and without
\* listener, also when the shutdown of the stream fails, and a close() that
\* follows a close() succeeds and changes nothing.
C23_CloseIdempotent ==
    [][(data'.op = "close" /\ data' # data)
          => /\ ~data'.conn.stream
             /\ ~data'.conn.listener
             /\ data.op = "close" => (data'.out.ok /\ data'.conn = data.conn)]_vars


(***************************************************************************)
(* Release of the data connection of a transfer                            *)
(***************************************************************************)
\* C24: when STOR or LIST has returned, with a reply or with any error, the
\* data connection of the transfer holds no stream and no listener.
C24_NoDataConnectionSurvives ==
    (Returned /\ cmd.verb \in {"STOR", "LIST"}) => (~dc.stream /\ ~dc.listener)

\* a STOR in Active mode bound its listener, the accept failed, and the
\* handler has returned the error
C24_Witness ==
    /\ Returned /\ cmd.verb = "STOR" /\ ~result.ok
    /\ \E i \in DOMAIN log : log[i].op = "accept" /\ log[i].code = 0
    /\ ~dc.stream /\ ~dc.listener


(***************************************************************************)
(* parse_response and Display for FtpResponse (src/responses/parser.rs),   *)
(* on the characters of one reply                                          *)
(***************************************************************************)
\* characters of the text handed to parse_response
MaxInput == 5

ReplyChars == {"0", "2", "9", " ", "-", "+", "x"}
DecimalDigits == <<"0", "1", "2", "3", "4", "5", "6", "7", "8", "9">>
is_ascii_digit(c) == \E i \in DOMAIN DecimalDigits : DecimalDigits[i] = c
DigitValue(c) == (CHOOSE i \in DOMAIN DecimalDigits : DecimalDigits[i] = c) - 1

\* str::trim: leading and trailing whitespace removed
is_whitespace(c) == c \in {" ", "\t"}
RECURSIVE trim_start(_)
trim_start(s) == IF s # <<>> /\ is_whitespace(Head(s)) THEN trim_start(Tail(s)) ELSE s
RECURSIVE trim_end(_)
trim_end(s) ==
    IF s # <<>> /\ is_whitespace(s[Len(s)]) THEN trim_end(SubSeq(s, 1, Len(s) - 1)) ELSE s
trim(s) == trim_end(trim_start(s))

RECURSIVE DecimalValue(_)
DecimalValue(s) ==
    IF s = <<>> THEN 0 ELSE 10 * DecimalValue(SubSeq(s, 1, Len(s) - 1)) + DigitValue(s[Len(s)])

\* str::parse::<u16> on the three characters of the code: an optional '+',
\* then one or more digits (three digits cannot overflow u16); -1: Err
parse_u16(s) ==
    LET digits == IF s # <<>> /\ Head(s) = "+" THEN Tail(s) ELSE s
    IN  IF digits = <<>> \/ \E i \in DOMAIN digits : ~is_ascii_digit(digits[i])
           THEN -1
           ELSE DecimalValue(digits)

ParseOk(code, message) == [ok |-> TRUE, code |-> code, message |-> message, err |-> "-"]
ParseErr(err) == [NoFtpResponse EXCEPT !.err = err]

parser_parse_response(text) ==
    LET response == trim(text)
        code == parse_u16(SubSeq(response, 1, 3))
    IN  IF response = <<>> THEN ParseErr("Empty response")
        ELSE IF Len(response) < 4 THEN ParseErr("Response too short")
        ELSE IF code = -1 THEN ParseErr("Invalid response code")
        ELSE IF response[4] \notin {" ", "-"} THEN ParseErr("Invalid response format")
        ELSE ParseOk(code, SubSeq(response, 5, Len(response)))

\* Display for u16: the decimal digits of the number, without leading zeros
RECURSIVE u16_fmt(_)
u16_fmt(n) ==
    IF n < 10 THEN <<DecimalDigits[n + 1]>>
              ELSE u16_fmt(n \div 10) \o <<DecimalDigits[(n % 10) + 1]>>

\* Display for FtpResponse: "{} {}" of code and message
FtpResponse_fmt(r) == u16_fmt(r.code) \o <<" ">> \o r.message

parseRest == <<clientVars, netVars, pc, localVars, cmd, entry, log, result,
               wire, reader, pasv, upload, data, typed, download>>

ParseInit ==
    /\ download = NoDownload
    /\ typed = NoTyped
    /\ state = "Connected"
    /\ stream = TRUE
    /\ peerOpen = TRUE
    /\ config = [max_retries |-> MaxRetries]
    /\ pc = "idle"
    /\ SessionAtRest
    /\ wire = <<>> /\ reader = NoFrame /\ pasv = NoPasv /\ upload = NoUpload
    /\ data = NoData
    /\ \E text \in SeqUpTo(ReplyChars, MaxInput) :
          parsed = [NoParsed EXCEPT !.pc = "call", !.input = text]

call_parse_response ==
    /\ parsed.pc = "call"
    /\ parsed' = [parsed EXCEPT !.pc = "parsed", !.out = parser_parse_response(parsed.input)]
    /\ UNCHANGED parseRest

call_fmt ==
    /\ parsed.pc = "parsed"
    /\ parsed.out.ok
    /\ parsed' = [parsed EXCEPT !.pc = "shown", !.shown = FtpResponse_fmt(parsed.out)]
    /\ UNCHANGED parseRest

ParseNext == call_parse_response \/ call_fmt

ParseSpec == ParseInit /\ [][ParseNext]_vars

\* the text starts with three ASCII digits
ThreeDigits(text) ==
    Len(text) >= 3 /\ \A i \in 1..3 : is_ascii_digit(text[i])

\* C25: parse_response of three digits followed by ' ' or '-' and nothing
\* else succeeds with the code of the digits and the empty message; the
\* message of every successful parse is the text behind the fourth character.
C25_MessageAfterFourthChar ==
    parsed.pc # "call"
        => /\ (Len(parsed.input) = 4 /\ ThreeDigits(parsed.input)
                  /\ parsed.input[4] \in {" ", "-"})
              => /\ parsed.out.ok
                 /\ parsed.out.code = DecimalValue(SubSeq(parsed.input, 1, 3))
                 /\ parsed.out.message = <<>>
           /\ parsed.out.ok
              => parsed.out.message = SubSeq(parsed.input, 5, Len(parsed.input))

\* reply codes run from 100 to 599
ValidReplyCode(text) ==
    /\ ThreeDigits(text)
    /\ DecimalValue(SubSeq(text, 1, 3)) >= 100
    /\ DecimalValue(SubSeq(text, 1, 3)) <= 599

\* C26: parse_response returns an error for every text that does not start
\* with three ASCII digits of a valid reply code followed by ' ' or '-'.
C26_MalformedRejected ==
    (/\ parsed.pc # "call"
     /\ ~(/\ Len(parsed.input) >= 4
          /\ ValidReplyCode(parsed.input)
          /\ parsed.input[4] \in {" ", "-"}))
        => ~parsed.out.ok

\* C27: for every text of three digits, a space and a message, parse_response
\* succeeds and the Display of its result is the text again.
C27_RoundTrip ==
    (/\ parsed.pc # "call"
     /\ Len(parsed.input) >= 4
     /\ ThreeDigits(parsed.input)
     /\ parsed.input[4] = " ")
        => /\ parsed.out.ok
           /\ parsed.pc = "shown" => parsed.shown = parsed.input


(***************************************************************************)
(* The client-side command                                                 *)
(***************************************************************************)
\* C28: execute_command(Help) writes nothing to the control channel and
\* reads nothing from it.
C28_HelpIsClientOnly ==
    (cmd # NoCmd /\ cmd.verb = "HELP")
        => \A i \in DOMAIN log : log[i].op \notin {"send", "read", "read_fail"}


(***************************************************************************)
(* parse_command (src/commands/parser.rs), on the characters of one line   *)
(***************************************************************************)
\* whitespace characters before, behind and between the parts of a line
MaxPad == 2

LowerCase == <<"p", "w", "d", "c", "x">>
UpperCase == <<"P", "W", "D", "C", "X">>

\* a to_uppercase that leaves the text as it is
to_uppercase_kept(s) == s
\* str::to_uppercase
to_uppercase(s) ==
    [i \in DOMAIN s |->
        IF \E k \in DOMAIN LowerCase : LowerCase[k] = s[i]
           THEN UpperCase[CHOOSE k \in DOMAIN LowerCase : LowerCase[k] = s[i]]
           ELSE s[i]]

NoArgVerbs == {<<"Q", "U", "I", "T">>, <<"L", "I", "S", "T">>, <<"P", "W", "D">>,
               <<"P", "A", "S", "V">>, <<"L", "O", "G", "O", "U", "T">>,
               <<"R", "A", "X">>, <<"H", "E", "L", "P">>}
ArgVerbs == {<<"U", "S", "E", "R">>, <<"P", "A", "S", "S">>, <<"S", "T", "O", "R">>,
             <<"R", "E", "T", "R">>, <<"D", "E", "L">>, <<"C", "W", "D">>,
             <<"P", "O", "R", "T">>}

\* trimmed.splitn(2, char::is_whitespace): the text before the first
\* whitespace character and the text behind it
FirstWhitespace(s) ==
    IF \E i \in DOMAIN s : is_whitespace(s[i])
       THEN CHOOSE i \in DOMAIN s : is_whitespace(s[i]) /\ \A j \in 1..(i - 1) : ~is_whitespace(s[j])
       ELSE Len(s) + 1
splitn2(s) ==
    [cmd |-> SubSeq(s, 1, FirstWhitespace(s) - 1),
     rest |-> SubSeq(s, FirstWhitespace(s) + 1, Len(s))]

\* FtpCommand::Unknown(message) has the empty kind and its message in note, arg
parse_command(input) ==
    LET trimmed == trim(input)
        parts == splitn2(trimmed)
        c == to_uppercase(parts.cmd)
        arg == trim(parts.rest)
    IN  IF trimmed = <<>>
           THEN [kind |-> <<>>, arg |-> <<>>, note |-> "Empty command"]
        ELSE IF c \in NoArgVerbs
           THEN [kind |-> c, arg |-> <<>>, note |-> "-"]
        ELSE IF c \in ArgVerbs
           THEN IF arg = <<>>
                   THEN [kind |-> <<>>, arg |-> c, note |-> "requires argument"]
                   ELSE [kind |-> c, arg |-> arg, note |-> "-"]
        ELSE [kind |-> <<>>, arg |-> c, note |-> "Unknown command"]

\* the verbs, arguments and whitespace a typed line is made of
TypedVerbs == {<<>>, <<"P", "W", "D">>, <<"C", "W", "D">>, <<"X">>}
TypedArgs == {<<>>, <<"a">>, <<"a", " ", "b">>}
Cased(v) ==
    {s \in [DOMAIN v -> {"p", "w", "d", "c", "x", "P", "W", "D", "C", "X"}] :
        \A i \in DOMAIN v :
           \/ s[i] = v[i]
           \/ \E k \in DOMAIN UpperCase : UpperCase[k] = v[i] /\ LowerCase[k] = s[i]}
\* the line with its verb in upper case, one space before the argument and
\* no other whitespace around its parts
CanonicalLine(v, a) == v \o (IF a = <<>> THEN <<>> ELSE <<" ">> \o a)
Pads(lo) == UNION {[1..k -> {" ", "\t"}] : k \in lo..MaxPad}

typedRest == <<clientVars, netVars, pc, localVars, cmd, entry, log, result,
               wire, reader, pasv, upload, data, parsed, download>>

TypedInit ==
    /\ download = NoDownload
    /\ state = "Connected"
    /\ stream = TRUE
    /\ peerOpen = TRUE
    /\ config = [max_retries |-> MaxRetries]
    /\ pc = "idle"
    /\ SessionAtRest
    /\ wire = <<>> /\ reader = NoFrame /\ pasv = NoPasv /\ upload = NoUpload
    /\ data = NoData
    /\ parsed = NoParsed
    /\ \E v \in TypedVerbs, a \in TypedArgs :
          /\ v = <<>> => a = <<>>
          /\ \E w \in Cased(v), lead \in Pads(0), trail \in Pads(0),
                sep \in (IF a = <<>> THEN {<<>>} ELSE Pads(1)) :
                typed = [pc |-> "call", lead |-> lead, verb |-> w, sep |-> sep, arg |-> a,
                         trail |-> trail, input |-> lead \o w \o sep \o a \o trail,
                         canon |-> CanonicalLine(v, a), out |-> NoParsedCommand,
                         sent |-> <<>>]

call_parse_command ==
    /\ typed.pc = "call"
    /\ typed' = [typed EXCEPT !.pc = "returned", !.out = parse_command(typed.input)]
    /\ UNCHANGED typedRest

TypedSpec == TypedInit /\ [][call_parse_command]_vars

\* C29: parse_command returns for a line what it returns for the line with
\* the verb in upper case and without leading, trailing and extra separating
\* whitespace.
C29_CaseAndWhitespaceInsensitive ==
    typed.pc = "returned" => typed.out = parse_command(typed.canon)

\* "\t cwd \ta " was parsed to Cwd("a")
C29_Witness ==
    /\ typed.pc = "returned"
    /\ typed.verb = <<"c", "w", "d">>
    /\ typed.lead # <<>> /\ typed.trail # <<>> /\ Len(typed.sep) = MaxPad
    /\ typed.out = [kind |-> <<"C", "W", "D">>, arg |-> <<"a">>, note |-> "-"]


(***************************************************************************)
(* The explicit PORT target                                                *)
(***************************************************************************)
\* C30: in a transfer that runs in Active mode after an accepted PORT ip:p,
\* the listener is bound to port p and the PORT command the transfer sends
\* names port p.
C30_ExplicitPortTargetUsed ==
    (/\ cmd.verb \in {"STOR", "LIST"}
     /\ current_data_mode = "Active"
     /\ data_connection_info.mode = "Active")
        => /\ dc.listener => dc.port = PortOf(data_connection_info.host)
           /\ \A i \in DOMAIN log :
                 (log[i].op = "send" /\ log[i].verb = "PORT")
                    => log[i].code = PortOf(data_connection_info.host)


\* C31: an accept_connection that waits on the listener of an Active
\* connection eventually returns, also when the server never connects.
C31_AcceptReturns ==
    (data.op = "accept_connection" /\ data.out = Blocked) ~> (data.out # Blocked)


(***************************************************************************)
(* download_file_with_progress (src/transfer/download.rs) chunk by chunk   *)
(***************************************************************************)
\* chunks the server sends before it closes the data stream
MaxChunks == 4
\* bytes of one chunk receive_data returns
MaxChunk == 3

downloadRest == <<clientVars, netVars, pc, localVars, cmd, entry, log, result,
                  wire, reader, pasv, upload, data, parsed, typed>>

\* the call starts on an established data stream with the local file
\* created; incoming: the sizes of the chunks receive_data will return
DownloadInit ==
    /\ state = "Authenticated"
    /\ stream = TRUE
    /\ peerOpen = TRUE
    /\ config = [max_retries |-> MaxRetries]
    /\ pc = "idle"
    /\ SessionAtRest
    /\ wire = <<>> /\ reader = NoFrame /\ pasv = NoPasv /\ upload = NoUpload
    /\ data = NoData /\ parsed = NoParsed /\ typed = NoTyped
    /\ \E sizes \in SeqUpTo(1..MaxChunk, MaxChunks) :
          download = [NoDownload EXCEPT !.pc = "loop", !.incoming = sizes]

\* TransferProgress::new(total): transferred_bytes starts at 0
TransferProgress_new(total) == [total_bytes |-> total, transferred_bytes |-> 0]
add_bytes(p, bytes) == [p EXCEPT !.transferred_bytes = @ + bytes]

\* Ok(bytes_received) and write_all succeeds
download_chunk ==
    /\ download.pc = "loop"
    /\ download.incoming # <<>>
    /\ LET bytes_received == Head(download.incoming)
           total_received == download.total_received + bytes_received
           old == [total_bytes |-> download.total_bytes,
                   transferred_bytes |-> download.transferred_bytes]
           progress == add_bytes(IF old.total_bytes < total_received
                                    THEN TransferProgress_new(total_received)
                                    ELSE old,
                                 bytes_received)
       IN  download' = [download EXCEPT !.incoming = Tail(@),
                                        !.total_received = total_received,
                                        !.total_bytes = progress.total_bytes,
                                        !.transferred_bytes = progress.transferred_bytes,
                                        !.chunks = @ + 1]
    /\ UNCHANGED downloadRest

\* write_all fails on the chunk just received
download_write_fails ==
    /\ download.pc = "loop"
    /\ download.incoming # <<>>
    /\ download' = [download EXCEPT !.pc = "returned", !.incoming = Tail(@),
                                    !.out = "TransferFailed"]
    /\ UNCHANGED downloadRest

\* receive_data returns Err
download_receive_fails ==
    /\ download.pc = "loop"
    /\ download' = [download EXCEPT !.pc = "returned", !.out = "DataConnectionFailed"]
    /\ UNCHANGED downloadRest

\* Ok(0): end of file, then writer.flush()
download_eof ==
    /\ download.pc = "loop"
    /\ download.incoming = <<>>
    /\ \E flushed \in BOOLEAN :
          download' = [download EXCEPT !.pc = "returned",
                                       !.out = IF flushed THEN "Ok" ELSE "TransferFailed"]
    /\ UNCHANGED downloadRest

download_file_with_progress ==
    \/ download_chunk
    \/ download_write_fails
    \/ download_receive_fails
    \/ download_eof

DownloadSpec == DownloadInit /\ [][download_file_with_progress]_vars

\* C32: after every received chunk the tracker's transferred-byte count and
\* its total size are both the number of bytes received so far.
C32_ProgressCountsAllBytes ==
    download.chunks > 0
        => /\ download.transferred_bytes = download.total_received
           /\ download.total_bytes = download.total_received


(***************************************************************************)
(* Session state and control socket                                        *)
(***************************************************************************)
\* C33: while the session runs, its state is Connected or Authenticated only
\* if the control connection holds its socket: after a send or read that
\* dropped the socket the state is Disconnected.
C33_StateNeedsSocket ==
    (pc # "exited" /\ state \in {"Connected", "Authenticated"})
        => connection_is_connected(stream)


(***************************************************************************)
(* Bytes of the control socket between reads (ReaderSpec)                  *)
(***************************************************************************)
\* C34: the lines read_line has returned, followed by the lines still on the
\* control socket, are the lines the server sent, in order: no line is
\* dropped between two reads.
C34_NoLineDiscarded ==
    reader.pc # "none" => reader.response \o Concat(wire) = Concat(reader.sent)


\* C35: when the first line read does not open a multi-line reply (also a
\* line shorter than 4 characters, or one whose 4th character is neither
\* ' ' nor '-'), read_response returns that line alone.
C35_OneLineUnlessMultiLine ==
    (/\ reader.sent # <<>>
     /\ ~OpensMultiLine(reader.sent[1])
     /\ reader.response # <<>>)
        => /\ reader.pc = "returned"
           /\ reader.out = "Ok"
           /\ reader.response = reader.sent[1]


(***************************************************************************)
(* The control connection after a failed connect                           *)
(***************************************************************************)
\* C36: when connect_with_retries has returned an error, the control
\* connection holds no socket and the session state is Disconnected.
C36_FailedConnectLeavesNoSocket ==
    (~result.ok /\ result.kind = "ConnectionTimeout" /\ cmd = NoCmd)
        => /\ ~connection_is_connected(stream)
           /\ state = "Disconnected"


\* C37: when the STOR handler blocks reading the final reply, its data stream
\* is already closed (the server sees end-of-data and can send that reply)
C37_DataClosedBeforeFinalRead ==
    (cmd.verb = "STOR" /\ pc = "stor_final" /\ io = "read") => ~dc.stream


(***************************************************************************)
(* The client under a caller that reconnects.  Terminal::run_interactive  *)
(* calls connect_with_retries once, before its loop; the method is public  *)
(* and ClientSpec adds a caller that calls it again once the control       *)
(* connection has been lost.                                               *)
(***************************************************************************)
\* RaxFtpClient::connect_with_retries called again between two commands,
\* after the socket of the control connection was dropped
reconnect ==
    /\ pc = "idle"
    /\ ~connection_is_connected(stream)
    /\ pc' = "start"
    /\ cmd' = NoCmd
    /\ log' = <<>>
    /\ result' = NoResult
    /\ inbox' = <<>>      \* what the lost connection still held went with its socket
    /\ owed' = <<>>
    /\ UNCHANGED <<clientVars, unitVars, peerOpen, localVars, entry>>

ClientNext == Next \/ reconnect

ClientSpec == Init /\ [][ClientNext]_vars

\* connect_with_retries has just established a control connection
Established == pc = "idle" /\ result.ok /\ result.kind = "connect"

\* C38: when the first command on a newly established control connection is
\* a transfer, no data-connection info of an earlier connection is left for
\* it to use: it has to negotiate a data mode
C38_FirstTransferNegotiates ==
    [][(Established /\ pc' \in {"list_begin", "stor_begin"}) => data_connection_info = NoInfo]_vars


(***************************************************************************)
(* Terminal::handle_command: a typed line is parsed and executed           *)
(***************************************************************************)
\* the message carried by FtpCommand::Unknown, as parse_command builds it
Message(c) ==
    CASE c.note = "Unknown command" -> <<"Unknown command: ">> \o c.arg
      [] c.note = "requires argument" -> c.arg \o <<" requires argument">>
      [] OTHER -> <<"Empty command">>

\* FtpCommand::to_ftp_string: the verb and its argument; Unknown(cmd) => cmd.clone()
to_ftp_string(c) ==
    IF c.kind = <<>> THEN Message(c)
    ELSE IF c.arg = <<>> THEN c.kind
    ELSE c.kind \o <<" ">> \o c.arg

\* the loop of run_interactive skips a line that is empty after trimming;
\* handle_command passes what parse_command returned to execute_command, whose
\* arm `_` writes command.to_ftp_string() to the control channel
handle_command ==
    /\ typed.pc = "returned"
    /\ trim(typed.input) # <<>>
    /\ typed' = [typed EXCEPT !.pc = "executed", !.sent = to_ftp_string(typed.out)]
    /\ UNCHANGED typedRest

LineNext == call_parse_command \/ handle_command

LineSpec == TypedInit /\ [][LineNext]_vars

\* C39: for a line that parse_command turned into FtpCommand::Unknown, what
\* execute_command writes to the control channel is not the parser's message
C39_DiagnosticNotSent ==
    (typed.pc = "executed" /\ typed.out.kind = <<>>) => typed.sent # Message(typed.out)


(***************************************************************************)
(* The data mode and the data-connection info                              *)
(***************************************************************************)
\* current_data_mode and data_connection_info say the same
ModeAgreesWithInfo(mode, info) ==
    IF info # NoInfo THEN info.mode = mode ELSE mode = "Passive"

\* a step of the PORT or PASV command other than the handler taking note of
\* the reply 200 to PORT or 227 to PASV
NotAccepted ==
    /\ cmd.verb \in {"PORT", "PASV"}
    /\ pc \notin {"idle", "cleanup", "exited"}
    /\ ~(pc \in {"port_got", "pasv_got"} /\ io = "none" /\ ret.ok
           /\ ret.code = (IF cmd.verb = "PORT" THEN 200 ELSE 227))

\* C40: the data mode and the stored data-connection info agree in every
\* state (info present: its mode is current_data_mode; info absent: the mode
\* is Passive), and a PORT or PASV command changes neither unless its reply
\* is 200 / 227
C40_ModeAndInfoAgree ==
    /\ [](ModeAgreesWithInfo(current_data_mode, data_connection_info))
    /\ [][NotAccepted => UNCHANGED <<current_data_mode, data_connection_info>>]_vars


\* a PORT command was answered with a reply other than 200 while the info of
\* an earlier PASV was stored, and has returned
C40_Witness ==
    /\ Returned
    /\ cmd.verb = "PORT"
    /\ result.ok /\ result.code # 200
    /\ data_connection_info # NoInfo
    /\ data_connection_info.mode = "Passive"
    /\ current_data_mode = "Passive"

=============================================================================
